---- MODULE Spec2Model ----
(***************************************************************************)
(* Model of the CV Job Matcher: the section locator of                     *)
(* utils/web_scraper.py, the text extractor of utils/pdf_parser.py, the    *)
(* response parsing of models/bedrock_agent.py and the Streamlit script of *)
(* app.py.  Texts are sequences of character codes (ASCII).                *)
(***************************************************************************)
EXTENDS Integers, Sequences, FiniteSets, TLC

(***************************************************************************)
(* Bounds of the explored inputs.                                          *)
(***************************************************************************)
\* length of the filler fragment a page text can contain
PadLen == 4995
\* number of fragments a page text is built from
MaxFrags == 2
\* number of fragments a model response is built from
MaxResponseFrags == 6
\* number of pages of a document
MaxPages == 3

(***************************************************************************)
(* Python helpers.                                                         *)
(***************************************************************************)
Min(a, b) == IF a < b THEN a ELSE b

Max(a, b) == IF a > b THEN a ELSE b

\* text[a:b] for 0 <= a, 0 <= b (Python slice, 0-based, end exclusive)
PySlice(text, a, b) == SubSeq(text, a + 1, Min(b, Len(text)))

\* case folding of the (?i) flag, on ASCII letters
Lower(c) == IF c \in 65..90 THEN c + 32 ELSE c

(***************************************************************************)
(* utils/web_scraper.py: the section locator.                              *)
(***************************************************************************)
\* "job description", "about the job", "about this role",
\* "responsibilities", "what you'll do", "requirements"
job_desc_patterns ==
  << <<106, 111, 98, 32, 100, 101, 115, 99, 114, 105, 112, 116, 105, 111, 110>>,
     <<97, 98, 111, 117, 116, 32, 116, 104, 101, 32, 106, 111, 98>>,
     <<97, 98, 111, 117, 116, 32, 116, 104, 105, 115, 32, 114, 111, 108, 101>>,
     <<114, 101, 115, 112, 111, 110, 115, 105, 98, 105, 108, 105, 116, 105, 101, 115>>,
     <<119, 104, 97, 116, 32, 121, 111, 117, 39, 108, 108, 32, 100, 111>>,
     <<114, 101, 113, 117, 105, 114, 101, 109, 101, 110, 116, 115>> >>

\* the limit of the returned excerpt
MAX_EXCERPT == 5000

\* the pattern matches the text at 0-based offset i, ignoring case
MatchAt(pattern, text, i) ==
  /\ i + Len(pattern) <= Len(text)
  /\ \A k \in 1..Len(pattern) : Lower(text[i + k]) = pattern[k]

\* re.search(pattern, text): the start of the leftmost match, -1 for None
re_search(pattern, text) ==
  LET starts == {i \in 0..(Len(text) - Len(pattern)) : MatchAt(pattern, text, i)}
  IN  IF starts = {} THEN -1
      ELSE CHOOSE i \in starts : \A j \in starts : i <= j

\* a bug: the excerpt is cut at the leftmost match of any pattern
TryPatternsLeftmost(text, k) ==
  LET all == {re_search(job_desc_patterns[j], text) : j \in 1..Len(job_desc_patterns)} \ {-1}
  IN  IF all = {} THEN PySlice(text, 0, MAX_EXCERPT)
      ELSE LET start_idx == CHOOSE i \in all : \A j \in all : i <= j
           IN  PySlice(text, start_idx, start_idx + MAX_EXCERPT)

\* a bug: the fallback returns the last MAX_EXCERPT characters
RECURSIVE TryPatternsTail(_, _)
TryPatternsTail(text, k) ==
  IF k > Len(job_desc_patterns)
  THEN PySlice(text, Max(Len(text) - MAX_EXCERPT, 0), Len(text))
  ELSE LET start_idx == re_search(job_desc_patterns[k], text)
       IN  IF start_idx >= 0
           THEN PySlice(text, start_idx, start_idx + MAX_EXCERPT)
           ELSE TryPatternsTail(text, k + 1)

\* a bug: the excerpt runs from the match to the end of the text
RECURSIVE TryPatternsUnbounded(_, _)
TryPatternsUnbounded(text, k) ==
  IF k > Len(job_desc_patterns)
  THEN PySlice(text, 0, MAX_EXCERPT)
  ELSE LET start_idx == re_search(job_desc_patterns[k], text)
       IN  IF start_idx >= 0
           THEN PySlice(text, start_idx, Len(text))
           ELSE TryPatternsUnbounded(text, k + 1)

\* the loop over job_desc_patterns from pattern k on, and the fallback
RECURSIVE TryPatterns(_, _)
TryPatterns(text, k) ==
  IF k > Len(job_desc_patterns)
  THEN PySlice(text, 0, MAX_EXCERPT)
  ELSE LET start_idx == re_search(job_desc_patterns[k], text)
       IN  IF start_idx >= 0
           THEN PySlice(text, start_idx, start_idx + MAX_EXCERPT)
           ELSE TryPatterns(text, k + 1)

\* the section-locating step of scrape_job_description
LocateSection(text) == TryPatterns(text, 1)

(***************************************************************************)
(* Python values: a dict is a sequence of key/value members in insertion   *)
(* order; every value has the same record shape.                           *)
(***************************************************************************)
JNum(n) == [tag |-> "num", num |-> n, str |-> <<>>, members |-> <<>>]

JStr(s) == [tag |-> "str", num |-> 0, str |-> s, members |-> <<>>]

JObj(m) == [tag |-> "obj", num |-> 0, str |-> <<>>, members |-> m]

\* d[key] = val
DictSet(members, key, val) ==
  IF \E i \in 1..Len(members) : members[i].key = key
  THEN [i \in 1..Len(members) |->
          IF members[i].key = key THEN [key |-> key, val |-> val] ELSE members[i]]
  ELSE Append(members, [key |-> key, val |-> val])

(***************************************************************************)
(* json.loads, for objects, strings without escapes and unsigned integers  *)
(* (the JSON the explored responses can contain).  Positions are 1-based.  *)
(***************************************************************************)
ScanFail == [ok |-> FALSE, val |-> JNum(0), end |-> 0]

ScanOk(v, e) == [ok |-> TRUE, val |-> v, end |-> e]

IsWs(c) == c \in {32, 9, 10, 13}

IsDigit(c) == c \in 48..57

\* the first position from i on that holds no whitespace
RECURSIVE SkipWs(_, _)
SkipWs(s, i) ==
  IF i <= Len(s) /\ IsWs(s[i]) THEN SkipWs(s, i + 1) ELSE i

\* a string literal whose opening quote is at i
ScanString(s, i) ==
  LET closing == {j \in (i + 1)..Len(s) : s[j] = 34}
  IN  IF closing = {} THEN ScanFail
      ELSE LET j == CHOOSE c \in closing : \A d \in closing : c <= d
           IN  IF \E h \in (i + 1)..(j - 1) : s[h] = 92 \/ s[h] < 32
               THEN ScanFail
               ELSE ScanOk(JStr(SubSeq(s, i + 1, j - 1)), j + 1)

\* the value of the digits s[i..j]
RECURSIVE DigitsValue(_, _, _)
DigitsValue(s, i, j) ==
  IF j < i THEN 0 ELSE 10 * DigitsValue(s, i, j - 1) + (s[j] - 48)

\* an integer literal starting at the digit at i: 0 | [1-9][0-9]*
ScanNumber(s, i) ==
  IF s[i] = 48 THEN ScanOk(JNum(0), i + 1)
  ELSE LET stops == {j \in (i + 1)..(Len(s) + 1) : j > Len(s) \/ ~IsDigit(s[j])}
           e == CHOOSE j \in stops : \A h \in stops : j <= h
       IN  ScanOk(JNum(DigitsValue(s, i, e - 1)), e)

RECURSIVE ScanValue(_, _)
RECURSIVE ScanMembers(_, _, _)

\* the members of an object from the key at i on; acc holds those before
ScanMembers(s, i, acc) ==
  IF i > Len(s) \/ s[i] # 34 THEN ScanFail
  ELSE LET key == ScanString(s, i)
       IN  IF ~key.ok THEN ScanFail
           ELSE LET colon == SkipWs(s, key.end)
                IN  IF colon > Len(s) \/ s[colon] # 58 THEN ScanFail
                    ELSE LET value == ScanValue(s, SkipWs(s, colon + 1))
                         IN  IF ~value.ok THEN ScanFail
                             ELSE LET next == SkipWs(s, value.end)
                                      pairs == DictSet(acc, key.val.str, value.val)
                                  IN  IF next > Len(s) THEN ScanFail
                                      ELSE IF s[next] = 125 THEN ScanOk(JObj(pairs), next + 1)
                                      ELSE IF s[next] = 44
                                           THEN ScanMembers(s, SkipWs(s, next + 1), pairs)
                                      ELSE ScanFail

\* an object whose opening brace is at i
ScanObject(s, i) ==
  LET first == SkipWs(s, i + 1)
  IN  IF first > Len(s) THEN ScanFail
      ELSE IF s[first] = 125 THEN ScanOk(JObj(<<>>), first + 1)
      ELSE ScanMembers(s, first, <<>>)

\* the value starting at i
ScanValue(s, i) ==
  IF i > Len(s) THEN ScanFail
  ELSE IF s[i] = 34 THEN ScanString(s, i)
  ELSE IF s[i] = 123 THEN ScanObject(s, i)
  ELSE IF IsDigit(s[i]) THEN ScanNumber(s, i)
  ELSE ScanFail

\* json.loads(s): ok is FALSE when it raises
json_loads(s) ==
  LET value == ScanValue(s, SkipWs(s, 1))
  IN  IF value.ok /\ SkipWs(s, value.end) = Len(s) + 1 THEN value ELSE ScanFail

(***************************************************************************)
(* models/bedrock_agent.py                                                 *)
(***************************************************************************)
\* s.find(c): the lowest 0-based index of c, -1 when absent
str_find(s, c) ==
  LET at == {i \in 1..Len(s) : s[i] = c}
  IN  IF at = {} THEN -1 ELSE (CHOOSE i \in at : \A j \in at : i <= j) - 1

\* s.rfind(c): the highest 0-based index of c, -1 when absent
str_rfind(s, c) ==
  LET at == {i \in 1..Len(s) : s[i] = c}
  IN  IF at = {} THEN -1 ELSE (CHOOSE i \in at : \A j \in at : i >= j) - 1

\* "raw_analysis"
RAW_ANALYSIS == <<114, 97, 119, 95, 97, 110, 97, 108, 121, 115, 105, 115>>

\* "suggestions"
SUGGESTIONS == <<115, 117, 103, 103, 101, 115, 116, 105, 111, 110, 115>>

\* what a call gives: a returned dict, or an exception
Returned(v) == [raised |-> "none", value |-> v]

Raised(e) == [raised |-> e, value |-> JObj(<<>>)]

\* the outcome of invoke_model: the response text, or the exception of the
\* converse call, printed and raised again
invoke_model(remote) ==
  IF remote.ok THEN [ok |-> TRUE, text |-> remote.text]
  ELSE [ok |-> FALSE, text |-> <<>>]

\* a bug: the delimited text stops before the last closing brace
extract_json_short(response_text, fallback_key) ==
  LET json_start == str_find(response_text, 123)
      json_end == str_rfind(response_text, 125)
      fallback == Returned(JObj(<<[key |-> fallback_key, val |-> JStr(response_text)]>>))
  IN  IF json_start >= 0 /\ json_end > json_start
      THEN LET parsed == json_loads(PySlice(response_text, json_start, json_end))
           IN  IF parsed.ok THEN Returned(parsed.val) ELSE fallback
      ELSE fallback

\* a bug: the parse failure is not caught
extract_json_uncaught(response_text, fallback_key) ==
  LET json_start == str_find(response_text, 123)
      json_end == str_rfind(response_text, 125) + 1
      fallback == Returned(JObj(<<[key |-> fallback_key, val |-> JStr(response_text)]>>))
  IN  IF json_start >= 0 /\ json_end > json_start
      THEN LET parsed == json_loads(PySlice(response_text, json_start, json_end))
           IN  IF parsed.ok THEN Returned(parsed.val) ELSE Raised("JSONDecodeError")
      ELSE fallback

\* the try block that the three operations end with
extract_json(response_text, fallback_key) ==
  LET json_start == str_find(response_text, 123)
      json_end == str_rfind(response_text, 125) + 1
      fallback == Returned(JObj(<<[key |-> fallback_key, val |-> JStr(response_text)]>>))
  IN  IF json_start >= 0 /\ json_end > json_start
      THEN LET parsed == json_loads(PySlice(response_text, json_start, json_end))
           IN  IF parsed.ok THEN Returned(parsed.val) ELSE fallback
      ELSE fallback

\* a bug: a failed invocation is answered with the fallback dict
analyze_cv_swallowing(remote) ==
  LET response == invoke_model(remote)
  IN  IF ~response.ok THEN Returned(JObj(<<[key |-> RAW_ANALYSIS, val |-> JStr(<<>>)]>>))
      ELSE extract_json(response.text, RAW_ANALYSIS)

analyze_cv(remote) ==
  LET response == invoke_model(remote)
  IN  IF ~response.ok THEN Raised("InvocationError")
      ELSE extract_json(response.text, RAW_ANALYSIS)

analyze_job_description(remote) ==
  LET response == invoke_model(remote)
  IN  IF ~response.ok THEN Raised("InvocationError")
      ELSE extract_json(response.text, RAW_ANALYSIS)

generate_cv_improvement_suggestions(remote) ==
  LET response == invoke_model(remote)
  IN  IF ~response.ok THEN Raised("InvocationError")
      ELSE extract_json(response.text, SUGGESTIONS)

(***************************************************************************)
(* utils/pdf_parser.py.  A document is readable or not and has pages; a    *)
(* page gives its text or fails to.                                        *)
(***************************************************************************)
Extracted(t) == [raised |-> FALSE, text |-> t, message |-> <<>>]

\* Exception(f"Error extracting text from PDF: {str(e)}")
ExtractionError(cause) ==
  [raised |-> TRUE, text |-> <<>>,
   message |-> <<"Error extracting text from PDF: ", cause>>]

\* text += page.extract_text() + "\n" over the pages; "" marks a failure
RECURSIVE ConcatPages(_)
ConcatPages(pages) ==
  IF pages = <<>> THEN <<>>
  ELSE Head(pages).text \o <<10>> \o ConcatPages(Tail(pages))

\* a bug: a failure gives the empty text
extract_text_from_pdf_silent(pdf_file) ==
  IF ~pdf_file.readable THEN Extracted(<<>>)
  ELSE IF \E i \in 1..Len(pdf_file.pages) : ~pdf_file.pages[i].ok
       THEN Extracted(<<>>)
  ELSE Extracted(ConcatPages(pdf_file.pages))

extract_text_from_pdf(pdf_file) ==
  IF ~pdf_file.readable THEN ExtractionError("PdfReadError")
  ELSE IF \E i \in 1..Len(pdf_file.pages) : ~pdf_file.pages[i].ok
       THEN ExtractionError("PageError")
  ELSE Extracted(ConcatPages(pdf_file.pages))

(***************************************************************************)
(* app.py: the script that Streamlit runs again on every interaction.      *)
(***************************************************************************)
\* Python's None, in the shape of the other values
NONE == [tag |-> "none", num |-> 0, str |-> <<>>, members |-> <<>>]

\* None for a string that is not given, a variable that is not set
NoValue == "<None>"

\* bool(v)
Truthy(v) ==
  \/ v.tag = "obj" /\ v.members # <<>>
  \/ v.tag = "str" /\ v.str # <<>>
  \/ v.tag = "num" /\ v.num # 0

\* a or b, on strings
StrOr(a, b) == IF a = NoValue \/ a = "" THEN b ELSE a

\* os.environ.get(name, default), given the value of the variable
environ_get(value, default) == IF value = NoValue THEN default ELSE value

\* BedrockAgentManager.__init__
BedrockAgentManager(region_name, profile_name, env_region, env_profile) ==
  [region_name |-> StrOr(region_name, environ_get(env_region, "eu-west-1")),
   profile_name |-> StrOr(profile_name, environ_get(env_profile, "default"))]

\* get_bedrock_agent under st.cache_resource: built once, then reused
get_bedrock_agent(cached, env_region, env_profile) ==
  IF cached.built THEN cached
  ELSE LET manager == BedrockAgentManager(NoValue, NoValue, env_region, env_profile)
       IN  [built |-> TRUE, region_name |-> manager.region_name,
            profile_name |-> manager.profile_name]

\* the value of a st.text_input: what the user typed, else the default
text_input(typed, default) == IF typed = NoValue THEN default ELSE typed

\* scrape_job_description, given what the fetch and the normalisation of
\* lines 20-39 produce: the normalized page text, or a failure
scrape_job_description(fetched) ==
  IF ~fetched.ok
  THEN [raised |-> TRUE, text |-> <<>>]
  ELSE [raised |-> FALSE, text |-> LocateSection(fetched.text)]

\* a bug: one analysis is enough
BothAnalysesAvailableEither(cv, job) == Truthy(cv) \/ Truthy(job)

\* the condition of tab 3
BothAnalysesAvailable(cv, job) == Truthy(cv) /\ Truthy(job)

\* the documents a user can upload: one page of text ("CV"), unreadable
AppDocs ==
  << [readable |-> TRUE, pages |-> <<[ok |-> TRUE, text |-> <<67, 86>>]>>],
     [readable |-> FALSE, pages |-> <<>>] >>

\* what fetching the URL gives: a failure, or the text
\* "Welcome. REQUIREMENTS Job Description"
FetchOutcomes ==
  { [ok |-> FALSE, text |-> <<>>],
    [ok |-> TRUE,
     text |-> <<87, 101, 108, 99, 111, 109, 101, 46, 32,
                82, 69, 81, 85, 73, 82, 69, 77, 69, 78, 84, 83, 32,
                74, 111, 98, 32, 68, 101, 115, 99, 114, 105, 112, 116, 105, 111, 110>>] }

\* what the remote model gives: a failure, or the text
\* {"a":1}   {}   x
RemoteOutcomes ==
  { [ok |-> FALSE, text |-> <<>>],
    [ok |-> TRUE, text |-> <<123, 34, 97, 34, 58, 49, 125>>],
    [ok |-> TRUE, text |-> <<123, 125>>],
    [ok |-> TRUE, text |-> <<120>>] }

\* the environment of the process: neither variable set, or both
ProcessEnvironments ==
  { [AWS_REGION |-> NoValue, AWS_PROFILE |-> NoValue],
    [AWS_REGION |-> "ap-south-1", AWS_PROFILE |-> "work"] }

\* the text a user can paste: "job"
PastedText == <<106, 111, 98>>

\* Tab 1 (lines 66-94).  s holds the session fields and the cache;
\* cv_analysis is what analyze_cv gives when this run calls it.
Tab1(s, pressed, file, cv_analysis) ==
  IF file = 0 THEN s
  ELSE LET extracted == extract_text_from_pdf(AppDocs[file])
       IN  IF extracted.raised THEN [s EXCEPT !.error = "shown"]
           ELSE IF pressed # "Analyze CV"
                THEN [s EXCEPT !.cv_text = JStr(extracted.text),
                               !.buttons = @ \cup {"Analyze CV"}]
                ELSE IF cv_analysis.raised # "none"
                     THEN [s EXCEPT !.cv_text = JStr(extracted.text),
                                    !.buttons = @ \cup {"Analyze CV"},
                                    !.agent = get_bedrock_agent(@, s.env_region, s.env_profile),
                                    !.invoked = TRUE,
                                    !.error = "shown"]
                     ELSE [s EXCEPT !.cv_text = JStr(extracted.text),
                                    !.buttons = @ \cup {"Analyze CV"},
                                    !.agent = get_bedrock_agent(@, s.env_region, s.env_profile),
                                    !.invoked = TRUE,
                                    !.cv_analysis = cv_analysis.value]

\* Tab 2 (lines 97-146); scraped and job_analysis are what
\* scrape_job_description and analyze_job_description give when this run
\* calls them.
Tab2(s, pressed, input_method, job_url, pasted, scraped, job_analysis) ==
  IF input_method = "URL"
  THEN IF job_url = 0 THEN s
       ELSE IF pressed # "Scrape Job Description"
            THEN [s EXCEPT !.buttons = @ \cup {"Scrape Job Description"}]
            ELSE IF scraped.raised
                 THEN [s EXCEPT !.buttons = @ \cup {"Scrape Job Description"},
                                !.error = "shown"]
                 ELSE IF pressed # "Analyze Job Description"
                      THEN [s EXCEPT !.buttons = @ \cup {"Scrape Job Description",
                                                         "Analyze Job Description"},
                                     !.job_description = JStr(scraped.text)]
                      ELSE IF job_analysis.raised # "none"
                           THEN [s EXCEPT !.buttons = @ \cup {"Scrape Job Description",
                                                              "Analyze Job Description"},
                                          !.job_description = JStr(scraped.text),
                                          !.agent = get_bedrock_agent(@, s.env_region, s.env_profile),
                                          !.invoked = TRUE,
                                          !.error = "shown"]
                           ELSE [s EXCEPT !.buttons = @ \cup {"Scrape Job Description",
                                                              "Analyze Job Description"},
                                          !.job_description = JStr(scraped.text),
                                          !.agent = get_bedrock_agent(@, s.env_region, s.env_profile),
                                          !.invoked = TRUE,
                                          !.job_analysis = job_analysis.value]
  ELSE IF pasted = <<>> THEN s
       ELSE IF pressed # "Process Job Description"
            THEN [s EXCEPT !.buttons = @ \cup {"Process Job Description"}]
            ELSE IF job_analysis.raised # "none"
                 THEN [s EXCEPT !.buttons = @ \cup {"Process Job Description"},
                                !.job_description = JStr(pasted),
                                !.agent = get_bedrock_agent(@, s.env_region, s.env_profile),
                                !.invoked = TRUE,
                                !.error = "uncaught"]
                 ELSE [s EXCEPT !.buttons = @ \cup {"Process Job Description"},
                                !.job_description = JStr(pasted),
                                !.agent = get_bedrock_agent(@, s.env_region, s.env_profile),
                                !.invoked = TRUE,
                                !.job_analysis = job_analysis.value]

\* Tab 3 (lines 149-198); suggested is what
\* generate_cv_improvement_suggestions gives when this run calls it.
\* displayed: the run reached line 164 with suggestions set and rendered them.
Tab3(s, pressed, suggested) ==
  IF ~BothAnalysesAvailable(s.cv_analysis, s.job_analysis) THEN s
  ELSE IF pressed # "Generate Suggestions"
       THEN [s EXCEPT !.buttons = @ \cup {"Generate Suggestions"},
                      !.displayed = Truthy(s.suggestions)]
       ELSE IF suggested.raised # "none"
            THEN [s EXCEPT !.buttons = @ \cup {"Generate Suggestions"},
                           !.agent = get_bedrock_agent(@, s.env_region, s.env_profile),
                           !.invoked = TRUE,
                           !.error = "uncaught"]
            ELSE [s EXCEPT !.buttons = @ \cup {"Generate Suggestions"},
                           !.agent = get_bedrock_agent(@, s.env_region, s.env_profile),
                           !.invoked = TRUE,
                           !.suggestions = suggested.value,
                           !.suggestions_from = <<s.cv_analysis, s.job_analysis>>,
                           !.displayed = Truthy(suggested.value)]

\* the start of a run: nothing rendered, nothing invoked, no error yet
RunStart(s) ==
  [s EXCEPT !.buttons = {}, !.invoked = FALSE, !.error = "none",
            !.displayed = FALSE]

(***************************************************************************)
(* Inputs of the specifications of the pure functions.                     *)
(***************************************************************************)
Pad == [i \in 1..PadLen |-> 120]

\* filler, "Job Description", "About the job", "about this role",
\* "Responsibilities", "what you'll do", "Welcome. REQUIREMENTS",
\* " description"
PageFragments ==
  << Pad,
     <<74, 111, 98, 32, 68, 101, 115, 99, 114, 105, 112, 116, 105, 111, 110>>,
     <<65, 98, 111, 117, 116, 32, 116, 104, 101, 32, 106, 111, 98>>,
     <<97, 98, 111, 117, 116, 32, 116, 104, 105, 115, 32, 114, 111, 108, 101>>,
     <<82, 101, 115, 112, 111, 110, 115, 105, 98, 105, 108, 105, 116, 105, 101, 115>>,
     <<119, 104, 97, 116, 32, 121, 111, 117, 39, 108, 108, 32, 100, 111>>,
     <<87, 101, 108, 99, 111, 109, 101, 46, 32,
       82, 69, 81, 85, 73, 82, 69, 77, 69, 78, 84, 83>>,
     <<32, 100, 101, 115, 99, 114, 105, 112, 116, 105, 111, 110>> >>

\* x   {   }   "a":   1
ResponseFragments ==
  << <<120>>, <<123>>, <<125>>, <<34, 97, 34, 58>>, <<49>> >>

\* a page with text, a page without text, a page that cannot be read
PdfPages ==
  << [ok |-> TRUE, text |-> <<97>>],
     [ok |-> TRUE, text |-> <<>>],
     [ok |-> FALSE, text |-> <<>>] >>

VARIABLES
  page_frags,       \* the fragments the normalized page text was built from
  page_text,        \* the normalized page text (web_scraper.py line 39)
  located,          \* the locating step has returned
  job_text,         \* its result
  response_frags,   \* the fragments the response text was built from
  response_text,    \* the text invoke_model returned
  operation,        \* the operation that parsed it, "none" before
  result,           \* what the operation gave
  pdf_file,         \* the uploaded document
  extracted,        \* extract_text_from_pdf has been called
  pdf_result,       \* what it gave
  session,          \* st.session_state, the resource cache, the rendered
                    \* buttons and the course of the last run
  widgets,          \* the values of the input widgets
  run               \* the last run: the button pressed, whether the remote
                    \* model answers, whether the client was built, and the
                    \* values of the sidebar fields (lines 47-48)

locVars == <<page_frags, page_text, located, job_text>>

parVars == <<response_frags, response_text, operation, result>>

pdfVars == <<pdf_file, extracted, pdf_result>>

appVars == <<session, widgets, run>>

vars == <<locVars, parVars, pdfVars, appVars>>

LocIdle ==
  /\ page_frags = <<>>
  /\ page_text = <<>>
  /\ located = FALSE
  /\ job_text = <<>>

ParIdle ==
  /\ response_frags = <<>>
  /\ response_text = <<>>
  /\ operation = "none"
  /\ result = Returned(JObj(<<>>))

PdfIdle(readable) ==
  /\ pdf_file = [readable |-> readable, pages |-> <<>>]
  /\ extracted = FALSE
  /\ pdf_result = Extracted(<<>>)

\* the state after the first run of the script, nothing entered yet
AppIdle(env_region, env_profile) ==
  /\ session = [cv_text |-> NONE, job_description |-> NONE,
                cv_analysis |-> NONE, job_analysis |-> NONE,
                suggestions |-> NONE, suggestions_from |-> <<NONE, NONE>>,
                env_region |-> env_region, env_profile |-> env_profile,
                agent |-> [built |-> FALSE, region_name |-> NoValue,
                           profile_name |-> NoValue],
                buttons |-> {}, invoked |-> FALSE, error |-> "none",
                displayed |-> FALSE]
  /\ widgets = [uploaded_file |-> 0, input_method |-> "URL", job_url |-> 0,
                job_text |-> <<>>, aws_region |-> NoValue, aws_profile |-> NoValue]
  /\ run = [pressed |-> "none", remote_ok |-> TRUE, built_agent |-> FALSE,
            aws_region |-> environ_get(env_region, "us-east-1"),
            aws_profile |-> environ_get(env_profile, "default")]

(***************************************************************************)
(* The section locator on page texts.                                      *)
(***************************************************************************)
LocInit == LocIdle /\ ParIdle /\ PdfIdle(TRUE) /\ AppIdle(NoValue, NoValue)

\* the page text grows by one fragment
AppendFragment(f) ==
  /\ ~located
  /\ Len(page_frags) < MaxFrags
  /\ page_frags' = Append(page_frags, f)
  /\ page_text' = page_text \o PageFragments[f]
  /\ UNCHANGED <<located, job_text, parVars, pdfVars, appVars>>

\* lines 42-60 run on the page text
Locate ==
  /\ ~located
  /\ located' = TRUE
  /\ job_text' = LocateSection(page_text)
  /\ UNCHANGED <<page_frags, page_text, parVars, pdfVars, appVars>>

LocNext ==
  \/ \E f \in 1..Len(PageFragments) : AppendFragment(f)
  \/ Locate

SpecLocator == LocInit /\ [][LocNext]_vars

(***************************************************************************)
(* The three operations on response texts.                                 *)
(***************************************************************************)
ParInit == LocInit

\* the response text grows by one fragment
AppendResponse(f) ==
  /\ operation = "none"
  /\ Len(response_frags) < MaxResponseFrags
  /\ response_frags' = Append(response_frags, f)
  /\ response_text' = response_text \o ResponseFragments[f]
  /\ UNCHANGED <<operation, result, locVars, pdfVars, appVars>>

AnalyzeCv ==
  /\ operation = "none"
  /\ operation' = "analyze_cv"
  /\ result' = analyze_cv([ok |-> TRUE, text |-> response_text])
  /\ UNCHANGED <<response_frags, response_text, locVars, pdfVars, appVars>>

AnalyzeJobDescription ==
  /\ operation = "none"
  /\ operation' = "analyze_job_description"
  /\ result' = analyze_job_description([ok |-> TRUE, text |-> response_text])
  /\ UNCHANGED <<response_frags, response_text, locVars, pdfVars, appVars>>

GenerateSuggestions ==
  /\ operation = "none"
  /\ operation' = "generate_cv_improvement_suggestions"
  /\ result' = generate_cv_improvement_suggestions([ok |-> TRUE, text |-> response_text])
  /\ UNCHANGED <<response_frags, response_text, locVars, pdfVars, appVars>>

ParNext ==
  \/ \E f \in 1..Len(ResponseFragments) : AppendResponse(f)
  \/ AnalyzeCv
  \/ AnalyzeJobDescription
  \/ GenerateSuggestions

SpecParser == ParInit /\ [][ParNext]_vars

(***************************************************************************)
(* The text extractor on documents.                                        *)
(***************************************************************************)
PdfInit ==
  /\ LocIdle /\ ParIdle /\ AppIdle(NoValue, NoValue)
  /\ \E readable \in BOOLEAN : PdfIdle(readable)

\* the document has one more page
AddPage(p) ==
  /\ ~extracted
  /\ Len(pdf_file.pages) < MaxPages
  /\ pdf_file' = [pdf_file EXCEPT !.pages = Append(@, PdfPages[p])]
  /\ UNCHANGED <<extracted, pdf_result, locVars, parVars, appVars>>

ExtractText ==
  /\ ~extracted
  /\ extracted' = TRUE
  /\ pdf_result' = extract_text_from_pdf(pdf_file)
  /\ UNCHANGED <<pdf_file, locVars, parVars, appVars>>

PdfNext ==
  \/ \E p \in 1..Len(PdfPages) : AddPage(p)
  \/ ExtractText

SpecPdf == PdfInit /\ [][PdfNext]_vars

(***************************************************************************)
(* The interactive flow: every action is one interaction of the user and   *)
(* the run of the script it causes.                                        *)
(***************************************************************************)
Init ==
  /\ LocIdle /\ ParIdle /\ PdfIdle(TRUE)
  /\ \E env \in ProcessEnvironments : AppIdle(env.AWS_REGION, env.AWS_PROFILE)

\* the script runs with the widget values w; the button pressed reads true.
\* The tabs run in order, and an exception nobody catches ends the run.
Rerun(w, pressed, fetched, remote) ==
  \E cv_analysis \in {analyze_cv(remote)} :
  \E scraped \in {scrape_job_description(fetched)} :
  \E job_analysis \in {analyze_job_description(remote)} :
  \E suggested \in {generate_cv_improvement_suggestions(remote)} :
  \E s1 \in {Tab1(RunStart(session), pressed, w.uploaded_file, cv_analysis)} :
  \E s2 \in {Tab2(s1, pressed, w.input_method, w.job_url, w.job_text, scraped, job_analysis)} :
  \E s3 \in {IF s2.error = "uncaught" THEN s2 ELSE Tab3(s2, pressed, suggested)} :
    /\ widgets' = w
    /\ session' = s3
    /\ run' = [pressed |-> pressed, remote_ok |-> remote.ok,
               built_agent |-> ~session.agent.built /\ s3.agent.built,
               aws_region |-> text_input(w.aws_region, environ_get(session.env_region, "us-east-1")),
               aws_profile |-> text_input(w.aws_profile, environ_get(session.env_profile, "default"))]
    /\ UNCHANGED <<locVars, parVars, pdfVars>>

NoFetch == [ok |-> FALSE, text |-> <<>>]

NoRemote == [ok |-> TRUE, text |-> <<>>]

\* the user uploads a document, or removes it (0)
UploadFile(f) ==
  /\ f # widgets.uploaded_file
  /\ Rerun([widgets EXCEPT !.uploaded_file = f], "none", NoFetch, NoRemote)

\* the user picks the other input method; the widget of the method left
\* is no longer rendered and loses its value
ChooseInputMethod(m) ==
  /\ m # widgets.input_method
  /\ Rerun([widgets EXCEPT !.input_method = m, !.job_url = 0, !.job_text = <<>>],
           "none", NoFetch, NoRemote)

EnterJobUrl(u) ==
  /\ widgets.input_method = "URL"
  /\ u # widgets.job_url
  /\ Rerun([widgets EXCEPT !.job_url = u], "none", NoFetch, NoRemote)

PasteJobText(t) ==
  /\ widgets.input_method = "Paste Text"
  /\ t # widgets.job_text
  /\ Rerun([widgets EXCEPT !.job_text = t], "none", NoFetch, NoRemote)

EditRegion(r) ==
  /\ r # widgets.aws_region
  /\ Rerun([widgets EXCEPT !.aws_region = r], "none", NoFetch, NoRemote)

EditProfile(p) ==
  /\ p # widgets.aws_profile
  /\ Rerun([widgets EXCEPT !.aws_profile = p], "none", NoFetch, NoRemote)

PressAnalyzeCV(remote) ==
  /\ "Analyze CV" \in session.buttons
  /\ Rerun(widgets, "Analyze CV", NoFetch, remote)

PressScrape(fetched) ==
  /\ "Scrape Job Description" \in session.buttons
  /\ Rerun(widgets, "Scrape Job Description", fetched, NoRemote)

PressAnalyzeJob(remote) ==
  /\ "Analyze Job Description" \in session.buttons
  /\ Rerun(widgets, "Analyze Job Description", NoFetch, remote)

PressProcess(remote) ==
  /\ "Process Job Description" \in session.buttons
  /\ Rerun(widgets, "Process Job Description", NoFetch, remote)

PressGenerate(remote) ==
  /\ "Generate Suggestions" \in session.buttons
  /\ Rerun(widgets, "Generate Suggestions", NoFetch, remote)

Next ==
  \/ \E f \in 0..Len(AppDocs) : UploadFile(f)
  \/ \E m \in {"URL", "Paste Text"} : ChooseInputMethod(m)
  \/ \E u \in {0, 1} : EnterJobUrl(u)
  \/ \E t \in {<<>>, PastedText} : PasteJobText(t)
  \/ \E r \in {"us-west-2"} : EditRegion(r)
  \/ \E p \in {"dev"} : EditProfile(p)
  \/ \E remote \in RemoteOutcomes : PressAnalyzeCV(remote)
  \/ \E fetched \in FetchOutcomes : PressScrape(fetched)
  \/ \E remote \in RemoteOutcomes : PressAnalyzeJob(remote)
  \/ \E remote \in RemoteOutcomes : PressProcess(remote)
  \/ \E remote \in RemoteOutcomes : PressGenerate(remote)

Spec == Init /\ [][Next]_vars

(***************************************************************************)
(* Properties of the section locator.                                      *)
(***************************************************************************)
\* marker k occurs in the page text at (1-based) position i, in any case
MarkerOccursAt(k, i) ==
  /\ i + Len(job_desc_patterns[k]) - 1 <= Len(page_text)
  /\ \A j \in 1..Len(job_desc_patterns[k]) :
       Lower(page_text[i + j - 1]) = job_desc_patterns[k][j]

MarkerPresent(k) == \E i \in 1..Len(page_text) : MarkerOccursAt(k, i)

FirstOccurrence(k) ==
  CHOOSE i \in 1..Len(page_text) :
    MarkerOccursAt(k, i) /\ \A h \in 1..(i - 1) : ~MarkerOccursAt(k, h)

\* the first marker from k on that occurs in the page text, 0 if none does
RECURSIVE FirstPresentFrom(_)
FirstPresentFrom(k) ==
  IF k > Len(job_desc_patterns) THEN 0
  ELSE IF MarkerPresent(k) THEN k
  ELSE FirstPresentFrom(k + 1)

NoMarkerPresent == \A k \in 1..Len(job_desc_patterns) : ~MarkerPresent(k)

\* the text from position i on, cut after MAX_EXCERPT characters
ExcerptFrom(i) == SubSeq(page_text, i, Min(i + MAX_EXCERPT - 1, Len(page_text)))

\* C1: when a marker occurs in the page text, the result is the text from
\* the earliest occurrence of the highest-priority marker present, even if
\* a marker of lower priority occurs earlier.
C1_PriorityOrder ==
  located =>
    LET best == FirstPresentFrom(1)
    IN  best # 0 => job_text = ExcerptFrom(FirstOccurrence(best))

\* "requirements" occurs before "job description" and the result starts at
\* "job description"
C1_Witness ==
  /\ located
  /\ MarkerPresent(1)
  /\ MarkerPresent(6)
  /\ FirstOccurrence(6) < FirstOccurrence(1)
  /\ job_text = ExcerptFrom(FirstOccurrence(1))

\* C2: when no marker occurs, the result is the first 5000 characters of
\* the page text, and a text shorter than that is returned whole.
C2_FallbackPrefix ==
  (located /\ NoMarkerPresent) =>
    /\ job_text = SubSeq(page_text, 1, Min(MAX_EXCERPT, Len(page_text)))
    /\ (Len(page_text) < MAX_EXCERPT => job_text = page_text)

\* a text longer than 5000 characters without a marker has been cut
C2_Witness ==
  /\ located
  /\ NoMarkerPresent
  /\ Len(page_text) > MAX_EXCERPT
  /\ Len(job_text) = MAX_EXCERPT

\* C3: the returned excerpt is at most 5000 characters long.
C3_ExcerptBounded == located => Len(job_text) <= MAX_EXCERPT

\* a marker in the middle of the text with more than 5000 characters after it
C3_Witness ==
  /\ located
  /\ \E k \in 1..Len(job_desc_patterns) :
       /\ MarkerPresent(k)
       /\ FirstOccurrence(k) > 1
       /\ Len(page_text) - FirstOccurrence(k) + 1 > MAX_EXCERPT
  /\ Len(job_text) = MAX_EXCERPT

(***************************************************************************)
(* Properties of the three operations.                                     *)
(***************************************************************************)
OpenBraces == {i \in 1..Len(response_text) : response_text[i] = 123}

CloseBraces == {i \in 1..Len(response_text) : response_text[i] = 125}

FirstOpen == CHOOSE i \in OpenBraces : \A j \in OpenBraces : i <= j

LastClose == CHOOSE i \in CloseBraces : \A j \in CloseBraces : i >= j

\* the first '{' precedes the last '}'
HasDelimited == OpenBraces # {} /\ CloseBraces # {} /\ FirstOpen < LastClose

\* the text from the first '{' through the last '}'
Delimited == SubSeq(response_text, FirstOpen, LastClose)

DelimitedParses == HasDelimited /\ json_loads(Delimited).ok

\* x{"a":1}x
ProseAroundObject == <<120, 123, 34, 97, 34, 58, 49, 125, 120>>

\* {"a": 1}
ObjectA1 == JObj(<<[key |-> <<97>>, val |-> JNum(1)]>>)

FallbackKey(op) ==
  IF op = "generate_cv_improvement_suggestions" THEN SUGGESTIONS ELSE RAW_ANALYSIS

FallbackMapping(op) ==
  JObj(<<[key |-> FallbackKey(op), val |-> JStr(response_text)]>>)

\* C4: for each of the three operations, when the text from the first '{'
\* through the last '}' parses, the operation returns exactly the parsed
\* mapping, whatever surrounds it; x{"a":1}x gives {"a": 1}.
C4_ParsedMapping ==
  operation # "none" =>
    /\ DelimitedParses => result = Returned(json_loads(Delimited).val)
    /\ response_text = ProseAroundObject => result = Returned(ObjectA1)

\* an object with prose before and after it has been parsed
C4_Witness ==
  /\ operation = "generate_cv_improvement_suggestions"
  /\ response_text = ProseAroundObject
  /\ result = Returned(ObjectA1)

\* C5: the parsing step never raises, and without braces in order or with
\* a delimited text that does not parse, the operation returns the mapping
\* of one field holding the response text, under "raw_analysis" for the two
\* analyses and under "suggestions" for the suggestions.
C5_FallbackNeverRaises ==
  operation # "none" =>
    /\ result.raised = "none"
    /\ ~DelimitedParses => result = Returned(FallbackMapping(operation))

\* braces in order around a text that does not parse
C5_Witness ==
  /\ operation = "analyze_job_description"
  /\ HasDelimited
  /\ ~json_loads(Delimited).ok
  /\ result = Returned(JObj(<<[key |-> RAW_ANALYSIS, val |-> JStr(response_text)]>>))

(***************************************************************************)
(* Properties of the text extractor.                                       *)
(***************************************************************************)
\* C6 as stated: a document without pages, and an unreadable one, both
\* make extract_text_from_pdf fail.
C6_ZeroPagesOrUnreadableFails ==
  (extracted /\ (~pdf_file.readable \/ pdf_file.pages = <<>>)) => pdf_result.raised

\* C6 as amended: an unreadable document makes extract_text_from_pdf fail
\* with an error that wraps the cause; a readable document without pages
\* gives the empty string.
C6_UnreadableFailsZeroPagesEmpty ==
  extracted =>
    /\ ~pdf_file.readable =>
         /\ pdf_result.raised
         /\ pdf_result.message = <<"Error extracting text from PDF: ", "PdfReadError">>
    /\ (pdf_file.readable /\ pdf_file.pages = <<>>) =>
         /\ ~pdf_result.raised
         /\ pdf_result.text = <<>>

\* the text of an unreadable document has been asked for
C6_Witness ==
  /\ extracted
  /\ ~pdf_file.readable
  /\ pdf_result.raised

(***************************************************************************)
(* Properties of the interactive flow.                                     *)
(***************************************************************************)
\* C7: in a run whose invocation of the remote model fails, the error
\* leaves the operation (the run shows it or ends with it) and the fields
\* cv_analysis, job_analysis and suggestions keep their values.
C7_InvocationErrorPropagates ==
  [][(session'.invoked /\ ~run'.remote_ok) =>
       /\ session'.error # "none"
       /\ session'.cv_analysis = session.cv_analysis
       /\ session'.job_analysis = session.job_analysis
       /\ session'.suggestions = session.suggestions]_vars

\* an analysis of the CV failed after an earlier one had succeeded
C7_Witness ==
  /\ run.pressed = "Analyze CV"
  /\ session.invoked
  /\ ~run.remote_ok
  /\ session.error # "none"
  /\ session.cv_analysis # NONE

\* C8 as stated: after "Analyze Job Description" is pressed on a scraped
\* posting and the remote model answers, job_analysis is set.
C8_ScrapedPostingAnalyzed ==
  (run.pressed = "Analyze Job Description" /\ run.remote_ok)
    => session.job_analysis # NONE

\* C9: suggestions set implies cv_analysis and job_analysis set, and
\* suggestions is written only by "Generate Suggestions" in a run that
\* starts with both analyses set.
C9_SuggestionsNeedBoth ==
  /\ [](session.suggestions # NONE =>
          session.cv_analysis # NONE /\ session.job_analysis # NONE)
  /\ [][session'.suggestions # session.suggestions =>
          /\ run'.pressed = "Generate Suggestions"
          /\ session.cv_analysis # NONE
          /\ session.job_analysis # NONE]_vars

\* suggestions have been generated
C9_Witness ==
  /\ run.pressed = "Generate Suggestions"
  /\ session.invoked
  /\ session.suggestions # NONE

\* C10 as stated: the client is built with the region and the profile the
\* user typed in the sidebar, else with those of the environment, else
\* with the default.
C10_ClientUsesConfiguredValues ==
  run.built_agent =>
    /\ session.agent.region_name =
         IF widgets.aws_region # NoValue THEN widgets.aws_region
         ELSE environ_get(session.env_region, "eu-west-1")
    /\ session.agent.profile_name =
         IF widgets.aws_profile # NoValue THEN widgets.aws_profile
         ELSE environ_get(session.env_profile, "default")

\* C11: whenever suggestions are set and rendered, they were synthesized
\* from the values cv_analysis and job_analysis hold in session state now.
C11_SuggestionsFromCurrentPair ==
  (session.displayed /\ Truthy(session.suggestions)) =>
    session.suggestions_from = <<session.cv_analysis, session.job_analysis>>

====
